---- MODULE Spec2Model ----
(***************************************************************************)
(* LightAPI: generic CRUD handlers over a SQLAlchemy session (handlers.py, *)
(* database.py).  Every request goes through AbstractHandler.__call__,     *)
(* which opens a session, awaits the concrete handle() and closes the      *)
(* session in a finally block.  The handlers run on one asyncio event      *)
(* loop: the session calls (query, add, delete, commit, refresh) are       *)
(* synchronous, so a handler runs atomically from one await to the next.   *)
(* The only await that can suspend a handler is `await request.json()`     *)
(* (get_request_json), in the create, update and patch handlers.           *)
(***************************************************************************)
EXTENDS Integers, Sequences, FiniteSets, TLC

\* ------------------------------------------------------------- bounds
\* Requests dispatched in one run; any number of them may be in flight
\* (suspended at an await) at the same time.
MaxCalls == 3

Reqs == 1..MaxCalls
\* The generated keys: every row comes from one create.
Pks == 1..MaxCalls

\* ------------------------------------------------------- the entity schema
\* The model class is a CustomBase subclass with an integer primary key pk
\* and two nullable columns.
Columns == {"pk", "name", "note"}
DataColumns == Columns \ {"pk"}
ColumnValues == [name |-> {"a", "b"}, note |-> {"x"}]
NULL == "NULL"

\* Request bodies: a JSON object over the data columns and one key that is
\* no column, or a body that is not valid JSON.
UnknownKey == "bogus"
KeyValues(k) == IF k = UnknownKey THEN {"a"} ELSE ColumnValues[k]
JsonObjects ==
    { f \in UNION { [K -> {"a", "b", "x"}] : K \in SUBSET (DataColumns \cup {UnknownKey}) } :
        \A k \in DOMAIN f : f[k] \in KeyValues(k) }
Malformed == [kind |-> "malformed", data |-> << >>]
NoBody == [kind |-> "none", data |-> << >>]
Bodies == { [kind |-> "object", data |-> f] : f \in JsonObjects } \cup {Malformed}

\* The {id} segment of the route, as text; NoId when the route has none.
NoId == "-"
RouteIds == { ToString(p) : p \in Pks } \cup {"abc"}

\* int(request.match_info['id']): the integer the text denotes; ValueError
\* (IsInt false) when it denotes none.
IsInt(s) == \E p \in Pks : ToString(p) = s
ParseInt(s) == CHOOSE p \in Pks : ToString(p) = s

\* ------------------------------------------------------------- state
VARIABLES
    storage,   \* committed rows of the table: pk -> row (a function on Columns)
    pc,        \* pc[r]: "new", "reading" (suspended in await request.json()), "done"
    handler,   \* handler[r]: the handler class serving the request in flight
    item,      \* item[r]: << >> (None) or <<row>>, the entity the session loaded
    route,     \* route[r]: the {id} of the request in flight (NoId when none)
    db,        \* db[r]: the identity of the session of the call (0: none yet)
    sess,      \* sess[r]: "none", "open" or "closed": the session of the call
    log,       \* log[r]: the session operations of the call in flight, in order
    last,      \* the step just taken: its request, outcome and session log
    posted,    \* history: pk -> body of the 201 response, while the row is as posted
    deleted    \* history: the pks removed by a 204 delete and not created again

vars == <<storage, pc, handler, item, route, db, sess, log, last, posted, deleted>>

\* ------------------------------------------------- responses and outcomes
\* What a call gives its caller: a web response (status, body), or an
\* exception that leaves the handler (raised, with the exception's class).
EmptyBody == [kind |-> "empty", val |-> << >>]
JsonBody(v) == [kind |-> "json", val |-> v]
JsonList(v) == [kind |-> "list", val |-> v]
NoResponse == [raised |-> FALSE, exc |-> "", status |-> 0, body |-> EmptyBody]
Response(status, body) == [raised |-> FALSE, exc |-> "", status |-> status, body |-> body]
Raise(exc) == [raised |-> TRUE, exc |-> exc, status |-> 0, body |-> EmptyBody]

\* What handle() did: its response, the storage it leaves and the session
\* operations it performed, in order.
Result(resp, st, ops) == [resp |-> resp, st |-> st, ops |-> ops]

\* Python values handed to json_response: one entity, or a list of dicts.
Entity(row) == [kind |-> "entity", val |-> row]
ListOf(rows) == [kind |-> "list", val |-> rows]

\* CustomBase.as_dict: the columns of the entity, by name.
as_dict(it) == [c \in Columns |-> it[c]]

\* AbstractHandler.json_response: web.json_response(item.as_dict(), status);
\* a list has no as_dict, so the attribute lookup raises AttributeError.
json_response(x, status) ==
    IF x.kind = "entity"
    THEN Response(status, JsonBody(as_dict(x.val)))
    ELSE Raise("AttributeError")

\* json_error_response with the status argument dropped: web.json_response
\* then answers with its default, 200.
json_error_response_default_status(error_message, status) ==
    Response(200, JsonBody([error |-> error_message]))

\* AbstractHandler.json_error_response.
json_error_response(error_message, status) ==
    Response(status, JsonBody([error |-> error_message]))

\* AbstractHandler.get_request_json: the parsed body; request.json() raises
\* JSONDecodeError on a body that is not JSON.
JsonFails(body) == body.kind = "malformed"

\* ------------------------------------------------------ session operations
\* get_item_by_id with the filter dropped: the first row of the table.
get_item_unfiltered(st, item_id) ==
    IF DOMAIN st = {} THEN << >>
    ELSE << st[CHOOSE p \in DOMAIN st : \A q \in DOMAIN st : p <= q] >>

\* AbstractHandler.get_item_by_id: query(model).filter(model.pk == id).first().
get_item_by_id(st, item_id) ==
    LET match == { p \in DOMAIN st : st[p].pk = item_id }
    IN  IF match = {} THEN << >> ELSE << st[CHOOSE p \in match : TRUE] >>

\* first() in the place of all(): at most one row.
query_first(st, order) == [i \in 1..(IF Len(order) = 0 THEN 0 ELSE 1) |-> st[order[i]]]

\* The rows of query(model).all(), in the order `order` (a sequence of pks).
query_all(st, order) == [i \in 1..Len(order) |-> st[order[i]]]

\* The key the table generates for an INSERT without one (an autoincrement
\* integer primary key): one more than the largest key in the table.
Max(S) == CHOOSE m \in S : \A x \in S : x <= m
NextKey(st) == IF DOMAIN st = {} THEN 1 ELSE Max(DOMAIN st) + 1

\* add_and_commit_item with the session closed between commit and refresh.
AddCommitCloseRefresh == <<"add", "commit", "close", "refresh">>

\* The operations add_and_commit_item performs on the session, in order.
AddCommitRefresh == <<"add", "commit", "refresh">>

\* add_and_commit_item through merge(): a loaded entity whose row is gone is
\* INSERTed again under its key.
add_and_commit_merge(st, it, loaded, newpk, dbFail) ==
    LET persistent == loaded # << >>
        pk      == IF persistent THEN loaded[1].pk ELSE newpk
        changed == IF persistent THEN { c \in Columns : it[c] # loaded[1][c] } ELSE {}
        st2     == IF ~persistent \/ pk \notin DOMAIN st
                   THEN (pk :> [it EXCEPT !.pk = pk]) @@ st
                   ELSE IF changed = {} THEN st
                   ELSE [st EXCEPT ![pk] =
                            [c \in Columns |-> IF c \in changed THEN it[c] ELSE @[c]]]
    IN  IF dbFail
        THEN [exc |-> "OperationalError", item |-> it, st |-> st,
              ops |-> SubSeq(AddCommitRefresh, 1, 2)]
        ELSE [exc |-> "", item |-> st2[pk], st |-> st2, ops |-> AddCommitRefresh]

\* add_and_commit_item without the refresh: the entity goes back as it was
\* handed in, a new one without its generated key.
add_and_commit_no_refresh(st, it, loaded, newpk, dbFail) ==
    LET persistent == loaded # << >>
        pk      == IF persistent THEN loaded[1].pk ELSE newpk
        changed == IF persistent THEN { c \in Columns : it[c] # loaded[1][c] } ELSE {}
        stale   == persistent /\ changed # {} /\ pk \notin DOMAIN st
        st2     == IF ~persistent
                   THEN (pk :> [it EXCEPT !.pk = pk]) @@ st
                   ELSE IF changed = {} THEN st
                   ELSE [st EXCEPT ![pk] =
                            [c \in Columns |-> IF c \in changed THEN it[c] ELSE @[c]]]
    IN  IF dbFail
        THEN [exc |-> "OperationalError", item |-> it, st |-> st, ops |-> <<"add", "commit">>]
        ELSE IF stale
        THEN [exc |-> "StaleDataError", item |-> it, st |-> st, ops |-> <<"add", "commit">>]
        ELSE [exc |-> "", item |-> it, st |-> st2, ops |-> <<"add", "commit">>]

\* AbstractHandler.add_and_commit_item(db, item).  `loaded` is << >> for a
\* new (transient) entity and <<row>> for an entity the session loaded, as
\* it was when loaded.  commit() flushes: a new entity is INSERTed under the
\* generated key newpk; a loaded entity is UPDATEd by primary key with the
\* attributes whose value differs from the loaded one, and no UPDATE is sent
\* when none differs; an UPDATE that matches no row raises StaleDataError.
\* dbFail: the database fails the commit.  refresh() re-reads the row by
\* primary key and raises InvalidRequestError when the row is gone.
add_and_commit_item(st, it, loaded, newpk, dbFail) ==
    LET persistent == loaded # << >>
        pk      == IF persistent THEN loaded[1].pk ELSE newpk
        changed == IF persistent THEN { c \in Columns : it[c] # loaded[1][c] } ELSE {}
        stale   == persistent /\ changed # {} /\ pk \notin DOMAIN st
        st2     == IF ~persistent
                   THEN (pk :> [it EXCEPT !.pk = pk]) @@ st
                   ELSE IF changed = {} THEN st
                   ELSE [st EXCEPT ![pk] =
                            [c \in Columns |-> IF c \in changed THEN it[c] ELSE @[c]]]
    IN  IF dbFail
        THEN [exc |-> "OperationalError", item |-> it, st |-> st,
              ops |-> SubSeq(AddCommitRefresh, 1, 2)]
        ELSE IF stale
        THEN [exc |-> "StaleDataError", item |-> it, st |-> st,
              ops |-> SubSeq(AddCommitRefresh, 1, 2)]
        ELSE IF pk \notin DOMAIN st2
        THEN [exc |-> "InvalidRequestError", item |-> it, st |-> st2,
              ops |-> AddCommitRefresh]
        ELSE [exc |-> "", item |-> st2[pk], st |-> st2, ops |-> AddCommitRefresh]

\* delete_and_commit_item catching the failure of commit(): roll back, issue
\* the DELETE and the commit a second time, and go on as if nothing failed.
delete_and_commit_retry(st, it, dbFail) ==
    [exc |-> "", st |-> [p \in DOMAIN st \ {it.pk} |-> st[p]],
     ops |-> IF dbFail THEN <<"delete", "commit", "rollback", "delete", "commit">>
             ELSE <<"delete", "commit">>]

\* delete_and_commit_item without the commit: the close rolls the DELETE back.
delete_without_commit(st, it, dbFail) ==
    [exc |-> "", st |-> st, ops |-> <<"delete">>]

\* AbstractHandler.delete_and_commit_item(db, item): DELETE by primary key,
\* then commit.
delete_and_commit_item(st, it, dbFail) ==
    IF dbFail
    THEN [exc |-> "OperationalError", st |-> st, ops |-> <<"delete", "commit">>]
    ELSE [exc |-> "", st |-> [p \in DOMAIN st \ {it.pk} |-> st[p]],
          ops |-> <<"delete", "commit">>]

\* ------------------------------------------------------------ the handlers
\* An attribute of a new entity that the constructor was not given.
Unset(c) == IF c = "pk" THEN 0 ELSE NULL

\* CreateHandler.handle, from the return of `await request.json()`.
\* model(**data): the declarative constructor raises TypeError on a keyword
\* that is no attribute of the class.
CreateHandle(st, body, newpk, dbFail) ==
    IF JsonFails(body) THEN Result(Raise("JSONDecodeError"), st, << >>)
    ELSE LET data == body.data IN
         IF ~(DOMAIN data \subseteq Columns) THEN Result(Raise("TypeError"), st, << >>)
         ELSE LET it == [c \in Columns |-> IF c \in DOMAIN data THEN data[c] ELSE Unset(c)]
                  r  == add_and_commit_item(st, it, << >>, newpk, dbFail)
              IN  IF r.exc # "" THEN Result(Raise(r.exc), r.st, r.ops)
                  ELSE Result(json_response(Entity(r.item), 201), r.st, r.ops)

\* ReadHandler.handle.  `order` is the order in which all() yields the rows.
ReadHandle(st, id, order) ==
    IF id = NoId
    THEN LET items    == query_all(st, order)
             response == [i \in 1..Len(items) |-> as_dict(items[i])]
         IN  Result(json_response(ListOf(response), 200), st, <<"query">>)
    ELSE IF ~IsInt(id) THEN Result(Raise("ValueError"), st, << >>)
    ELSE LET it == get_item_by_id(st, ParseInt(id))
         IN  IF it # << >>
             THEN Result(json_response(Entity(it[1]), 200), st, <<"query">>)
             ELSE Result(json_error_response("Item not found", 404), st, <<"query">>)

\* UpdateHandler.handle awaiting the body before it looks at what the lookup
\* found: an absent id goes on to the await, holding a blank entity.
UpdateLookupBodyFirst(st, id) ==
    IF ~IsInt(id)
    THEN [found |-> FALSE, item |-> << >>, res |-> Result(Raise("ValueError"), st, << >>)]
    ELSE LET it == get_item_by_id(st, ParseInt(id))
             blank == [c \in Columns |-> IF c = "pk" THEN ParseInt(id) ELSE NULL]
         IN  [found |-> TRUE, item |-> IF it = << >> THEN <<blank>> ELSE it,
              res |-> Result(NoResponse, st, <<"query">>)]

\* UpdateHandler.handle up to `await self.get_request_json(request)`: the
\* lookup.  found: the handler goes on to read the body, holding item.
UpdateLookup(st, id) ==
    IF ~IsInt(id)
    THEN [found |-> FALSE, item |-> << >>, res |-> Result(Raise("ValueError"), st, << >>)]
    ELSE LET it == get_item_by_id(st, ParseInt(id))
         IN  IF it = << >>
             THEN [found |-> FALSE, item |-> << >>,
                   res |-> Result(json_error_response("Item not found", 404), st, <<"query">>)]
             ELSE [found |-> TRUE, item |-> it, res |-> Result(NoResponse, st, <<"query">>)]

\* UpdateHandler.handle checking the keys of the body against the columns
\* before setattr, and answering 400 on a key that is none.
UpdateApplyRejectingUnknown(st, loaded, body, dbFail) ==
    IF JsonFails(body) THEN Result(Raise("JSONDecodeError"), st, << >>)
    ELSE LET data == body.data
             it   == [c \in Columns |-> IF c \in DOMAIN data THEN data[c] ELSE loaded[1][c]]
             r    == add_and_commit_item(st, it, loaded, 0, dbFail)
         IN  IF ~(DOMAIN data \subseteq Columns)
             THEN Result(json_error_response("Unknown field", 400), st, << >>)
             ELSE IF r.exc # "" THEN Result(Raise(r.exc), r.st, r.ops)
             ELSE Result(json_response(Entity(r.item), 200), r.st, r.ops)

\* UpdateHandler.handle as a full replace: a column the body does not name
\* is reset.
UpdateApplyFullReplace(st, loaded, body, dbFail) ==
    IF JsonFails(body) THEN Result(Raise("JSONDecodeError"), st, << >>)
    ELSE LET data == body.data
             it   == [c \in Columns |-> IF c \in DOMAIN data THEN data[c]
                                        ELSE IF c = "pk" THEN loaded[1][c] ELSE NULL]
             r    == add_and_commit_item(st, it, loaded, 0, dbFail)
         IN  IF r.exc # "" THEN Result(Raise(r.exc), r.st, r.ops)
             ELSE Result(json_response(Entity(r.item), 200), r.st, r.ops)

\* UpdateHandler.handle from the return of the await: setattr for every key
\* of the body (a key that is no column sets a plain attribute, which no
\* column reads), then add_and_commit_item and the 200 response.
UpdateApply(st, loaded, body, dbFail) ==
    IF JsonFails(body) THEN Result(Raise("JSONDecodeError"), st, << >>)
    ELSE LET data == body.data
             it   == [c \in Columns |-> IF c \in DOMAIN data THEN data[c] ELSE loaded[1][c]]
             r    == add_and_commit_item(st, it, loaded, 0, dbFail)
         IN  IF r.exc # "" THEN Result(Raise(r.exc), r.st, r.ops)
             ELSE Result(json_response(Entity(r.item), 200), r.st, r.ops)

\* PatchHandler.handle, in the same two parts.
PatchLookup(st, id) ==
    IF ~IsInt(id)
    THEN [found |-> FALSE, item |-> << >>, res |-> Result(Raise("ValueError"), st, << >>)]
    ELSE LET it == get_item_by_id(st, ParseInt(id))
         IN  IF it = << >>
             THEN [found |-> FALSE, item |-> << >>,
                   res |-> Result(json_error_response("Item not found", 404), st, <<"query">>)]
             ELSE [found |-> TRUE, item |-> it, res |-> Result(NoResponse, st, <<"query">>)]

PatchApply(st, loaded, body, dbFail) ==
    IF JsonFails(body) THEN Result(Raise("JSONDecodeError"), st, << >>)
    ELSE LET data == body.data
             it   == [c \in Columns |-> IF c \in DOMAIN data THEN data[c] ELSE loaded[1][c]]
             r    == add_and_commit_item(st, it, loaded, 0, dbFail)
         IN  IF r.exc # "" THEN Result(Raise(r.exc), r.st, r.ops)
             ELSE Result(json_response(Entity(r.item), 200), r.st, r.ops)

\* DeleteHandler.handle committing before it looks at what the lookup
\* found: the 404 branch has a commit too.
DeleteHandleCommitOnMiss(st, id, dbFail) ==
    IF ~IsInt(id) THEN Result(Raise("ValueError"), st, << >>)
    ELSE LET it == get_item_by_id(st, ParseInt(id))
         IN  IF it = << >>
             THEN Result(json_error_response("Item not found", 404), st, <<"query", "commit">>)
             ELSE LET r == delete_and_commit_item(st, it[1], dbFail)
                  IN  IF r.exc # "" THEN Result(Raise(r.exc), r.st, <<"query">> \o r.ops)
                      ELSE Result(Response(204, EmptyBody), r.st, <<"query">> \o r.ops)

\* DeleteHandler.handle.
DeleteHandle(st, id, dbFail) ==
    IF ~IsInt(id) THEN Result(Raise("ValueError"), st, << >>)
    ELSE LET it == get_item_by_id(st, ParseInt(id))
         IN  IF it = << >>
             THEN Result(json_error_response("Item not found", 404), st, <<"query">>)
             ELSE LET r == delete_and_commit_item(st, it[1], dbFail)
                  IN  IF r.exc # "" THEN Result(Raise(r.exc), r.st, <<"query">> \o r.ops)
                      ELSE Result(Response(204, EmptyBody), r.st, <<"query">> \o r.ops)

\* RetrieveAllHandler.handle.
RetrieveAllHandle(st, order) ==
    LET items    == query_all(st, order)
        response == [i \in 1..Len(items) |-> as_dict(items[i])]
    IN  Result(Response(200, JsonList(response)), st, <<"query">>)

\* The descriptor with HEAD left out of the allowed methods.
CapabilitiesWithoutHead ==
    [allowed_methods |-> <<"GET", "POST", "PUT", "DELETE", "PATCH", "OPTIONS">>,
     allowed_headers |-> <<"Content-Type", "Authorization">>,
     max_age |-> 3600]

\* OptionsHandler.handle: web.json_response's default status is 200.
Capabilities ==
    [allowed_methods |-> <<"GET", "POST", "PUT", "DELETE", "PATCH", "OPTIONS", "HEAD">>,
     allowed_headers |-> <<"Content-Type", "Authorization">>,
     max_age |-> 3600]
OptionsHandle(st) == Result(Response(200, JsonBody(Capabilities)), st, << >>)

\* HeadHandler.handle probing the table through the session it is given.
HeadHandleQuerying(st) == Result(Response(200, EmptyBody), st, <<"query">>)

\* HeadHandler.handle.
HeadHandle(st) == Result(Response(200, EmptyBody), st, << >>)

\* ------------------------------------------- AbstractHandler.__call__
\* db = SessionLocal(): a new session, open.
SessionLocal == <<"open">>

\* One module-level session handed to every call.
SharedSession(d) == 1

\* The identity of the Session object SessionLocal() returns: sessionmaker
\* constructs a new Session on every call, none of those made before (d).
NewSession(d) == 1 + Cardinality({ r \in DOMAIN d : d[r] # 0 })

\* db.close() after the await instead of in a finally block: an exception
\* skips it.
CloseOnReturnOnly(lg, resp) == IF resp.raised THEN lg ELSE Append(lg, "close")

\* finally: db.close(), on the return of handle() and on its exception.
Finally(lg, resp) == Append(lg, "close")

SessionState(lg) ==
    IF lg = << >> THEN "none"
    ELSE IF lg[Len(lg)] = "close" THEN "closed" ELSE "open"

\* The orders in which a query without ORDER BY may yield the rows.
Orders(st) ==
    { o \in [1..Cardinality(DOMAIN st) -> DOMAIN st] :
        \A i, j \in DOMAIN o : i # j => o[i] # o[j] }

Step(act, h, id, body, dbFail, done, resp, lg) ==
    [act |-> act, handler |-> h, id |-> id, body |-> body,
     dbFail |-> dbFail /\ (\E i \in DOMAIN lg : lg[i] = "commit"),
     done |-> done, resp |-> resp, log |-> lg]

\* The call of request r leaves __call__: handle() returned or raised, the
\* finally block ran, the response (or the exception) goes to the caller.
Leave(r, act, h, id, body, dbFail, res, lg) ==
    LET full == Finally(lg \o res.ops, res.resp) IN
    /\ storage' = res.st
    /\ pc' = [pc EXCEPT ![r] = "done"]
    /\ handler' = [handler EXCEPT ![r] = "none"]
    /\ item' = [item EXCEPT ![r] = << >>]
    /\ route' = [route EXCEPT ![r] = NoId]
    /\ log' = [log EXCEPT ![r] = << >>]
    /\ sess' = [sess EXCEPT ![r] = SessionState(full)]
    /\ last' = Step(act, h, id, body, dbFail, TRUE, res.resp, full)

\* The call of request r suspends in `await request.json()`.
Suspend(r, h, id, it, lg) ==
    /\ pc' = [pc EXCEPT ![r] = "reading"]
    /\ handler' = [handler EXCEPT ![r] = h]
    /\ item' = [item EXCEPT ![r] = it]
    /\ route' = [route EXCEPT ![r] = id]
    /\ log' = [log EXCEPT ![r] = lg]
    /\ sess' = [sess EXCEPT ![r] = SessionState(lg)]
    /\ last' = Step("call", h, id, NoBody, FALSE, FALSE, NoResponse, lg)
    /\ UNCHANGED <<storage, posted, deleted>>

\* Request r arrives and is dispatched to its handler: the requests are
\* numbered in the order of their arrival.
Dispatch(r) ==
    /\ pc[r] = "new"
    /\ \A q \in Reqs : q < r => pc[q] # "new"
    /\ db' = [db EXCEPT ![r] = NewSession(db)]

Without(f, k) == [p \in DOMAIN f \ {k} |-> f[p]]

\* ------------------------------------------------------------- actions
Init ==
    /\ storage = [p \in {} |-> NULL]
    /\ pc = [r \in Reqs |-> "new"]
    /\ handler = [r \in Reqs |-> "none"]
    /\ item = [r \in Reqs |-> << >>]
    /\ route = [r \in Reqs |-> NoId]
    /\ db = [r \in Reqs |-> 0]
    /\ sess = [r \in Reqs |-> "none"]
    /\ log = [r \in Reqs |-> << >>]
    /\ last = Step("none", "none", NoId, NoBody, FALSE, FALSE, NoResponse, << >>)
    /\ posted = [p \in {} |-> NULL]
    /\ deleted = {}

\* POST /thing/: CreateHandler, up to the await.
CallCreate(r) ==
    /\ Dispatch(r)
    /\ Suspend(r, "CreateHandler", NoId, << >>, SessionLocal)

\* CreateHandler from the await on.
ResumeCreate(r) ==
    /\ pc[r] = "reading" /\ handler[r] = "CreateHandler"
    /\ UNCHANGED db
    /\ \E body \in Bodies, dbFail \in BOOLEAN :
         LET newpk == NextKey(storage)
             res   == CreateHandle(storage, body, newpk, dbFail) IN
         /\ Leave(r, "resume", "CreateHandler", NoId, body, dbFail, res, log[r])
         /\ posted' = IF res.resp.status = 201
                       THEN (res.resp.body.val.pk :> res.resp.body.val) @@ posted
                       ELSE posted
         /\ deleted' = IF res.resp.status = 201
                        THEN deleted \ {res.resp.body.val.pk} ELSE deleted

\* GET /thing/{id}: ReadHandler (also called with no id in the route).
CallRead(r) ==
    /\ Dispatch(r)
    /\ \E id \in RouteIds \cup {NoId}, order \in Orders(storage) :
         /\ Leave(r, "call", "ReadHandler", id, NoBody, FALSE,
                  ReadHandle(storage, id, order), SessionLocal)
         /\ UNCHANGED <<posted, deleted>>

\* PUT /thing/{id}: UpdateHandler, up to the await or to its early return.
CallUpdate(r) ==
    /\ Dispatch(r)
    /\ \E id \in RouteIds :
         LET l == UpdateLookup(storage, id) IN
         IF l.found
         THEN Suspend(r, "UpdateHandler", id, l.item, SessionLocal \o l.res.ops)
         ELSE /\ Leave(r, "call", "UpdateHandler", id, NoBody, FALSE, l.res, SessionLocal)
              /\ UNCHANGED <<posted, deleted>>

\* UpdateHandler from the await on.
ResumeUpdate(r) ==
    /\ pc[r] = "reading" /\ handler[r] = "UpdateHandler"
    /\ UNCHANGED db
    /\ \E body \in Bodies, dbFail \in BOOLEAN :
         LET res == UpdateApply(storage, item[r], body, dbFail) IN
         /\ Leave(r, "resume", "UpdateHandler", route[r], body, dbFail, res, log[r])
         /\ posted' = IF res.resp.status = 200
                       THEN Without(posted, item[r][1].pk) ELSE posted
         /\ UNCHANGED deleted

\* PATCH /thing/{id}: PatchHandler.
CallPatch(r) ==
    /\ Dispatch(r)
    /\ \E id \in RouteIds :
         LET l == PatchLookup(storage, id) IN
         IF l.found
         THEN Suspend(r, "PatchHandler", id, l.item, SessionLocal \o l.res.ops)
         ELSE /\ Leave(r, "call", "PatchHandler", id, NoBody, FALSE, l.res, SessionLocal)
              /\ UNCHANGED <<posted, deleted>>

ResumePatch(r) ==
    /\ pc[r] = "reading" /\ handler[r] = "PatchHandler"
    /\ UNCHANGED db
    /\ \E body \in Bodies, dbFail \in BOOLEAN :
         LET res == PatchApply(storage, item[r], body, dbFail) IN
         /\ Leave(r, "resume", "PatchHandler", route[r], body, dbFail, res, log[r])
         /\ posted' = IF res.resp.status = 200
                       THEN Without(posted, item[r][1].pk) ELSE posted
         /\ UNCHANGED deleted

\* DELETE /thing/{id}: DeleteHandler (it awaits nothing that suspends).
CallDelete(r) ==
    /\ Dispatch(r)
    /\ \E id \in RouteIds, dbFail \in BOOLEAN :
         LET res == DeleteHandle(storage, id, dbFail) IN
         /\ Leave(r, "call", "DeleteHandler", id, NoBody, dbFail, res, SessionLocal)
         /\ posted' = IF res.resp.status = 204
                       THEN Without(posted, ParseInt(id)) ELSE posted
         /\ deleted' = IF res.resp.status = 204
                        THEN deleted \cup {ParseInt(id)} ELSE deleted

\* GET /thing/: RetrieveAllHandler.
CallRetrieveAll(r) ==
    /\ Dispatch(r)
    /\ \E order \in Orders(storage) :
         /\ Leave(r, "call", "RetrieveAllHandler", NoId, NoBody, FALSE,
                  RetrieveAllHandle(storage, order), SessionLocal)
         /\ UNCHANGED <<posted, deleted>>

\* OPTIONS /thing/: OptionsHandler.
CallOptions(r) ==
    /\ Dispatch(r)
    /\ Leave(r, "call", "OptionsHandler", NoId, NoBody, FALSE,
             OptionsHandle(storage), SessionLocal)
    /\ UNCHANGED <<posted, deleted>>

\* HEAD /thing/: HeadHandler.
CallHead(r) ==
    /\ Dispatch(r)
    /\ Leave(r, "call", "HeadHandler", NoId, NoBody, FALSE,
             HeadHandle(storage), SessionLocal)
    /\ UNCHANGED <<posted, deleted>>

Next ==
    \/ \E r \in Reqs : CallCreate(r)
    \/ \E r \in Reqs : ResumeCreate(r)
    \/ \E r \in Reqs : CallRead(r)
    \/ \E r \in Reqs : CallUpdate(r)
    \/ \E r \in Reqs : ResumeUpdate(r)
    \/ \E r \in Reqs : CallPatch(r)
    \/ \E r \in Reqs : ResumePatch(r)
    \/ \E r \in Reqs : CallDelete(r)
    \/ \E r \in Reqs : CallRetrieveAll(r)
    \/ \E r \in Reqs : CallOptions(r)
    \/ \E r \in Reqs : CallHead(r)

Spec == Init /\ [][Next]_vars

\* The event loop resumes a suspended handler once its body has arrived.
Resume(r) == ResumeCreate(r) \/ ResumeUpdate(r) \/ ResumePatch(r)
FairSpec == Spec /\ \A r \in Reqs : WF_vars(Resume(r))

\* ============================================================== claims
ItemHandlers == {"ReadHandler", "UpdateHandler", "PatchHandler", "DeleteHandler"}
NotFoundBody == JsonBody([error |-> "Item not found"])
Count(lg, op) == Cardinality({ i \in DOMAIN lg : lg[i] = op })
Invoked(lg, op) == \E i \in DOMAIN lg : lg[i] = op

\* C1: the session a call opens is closed on every exit path: no call has
\* left __call__ (with a success response, an error response or an
\* exception) with its session open, the session log of a call that left
\* ends with the close, and a session is open only while its call is
\* suspended in an await whose resumption, which closes it, is enabled.
C1_SessionClosedOnEveryExit ==
    /\ \A r \in Reqs : pc[r] = "done" => sess[r] = "closed"
    /\ \A r \in Reqs : sess[r] = "open" => pc[r] = "reading" /\ ENABLED Resume(r)
    /\ last.done => SessionState(last.log) = "closed"

\* C1 witness: a call that was suspended with its session open has left
\* with an exception, and its session is closed.
C1_Witness ==
    /\ last.act = "resume" /\ last.done /\ last.resp.raised
    /\ last.log[1] = "open" /\ SessionState(last.log) = "closed"
    /\ \E r \in Reqs : pc[r] = "done" /\ sess[r] = "closed"

\* C2: a POST whose body has a field name that is not in the schema returns
\* a 400 response, and add, commit and refresh are not invoked on the session.
HasUnknownField(body) == body.kind = "object" /\ ~(DOMAIN body.data \subseteq Columns)

C2_UnknownFieldReturns400 ==
    (last.handler = "CreateHandler" /\ last.done /\ HasUnknownField(last.body))
        => /\ ~last.resp.raised
           /\ last.resp.status = 400
           /\ ~Invoked(last.log, "add")
           /\ ~Invoked(last.log, "commit")
           /\ ~Invoked(last.log, "refresh")

\* C3: GET, PUT, PATCH and DELETE on an id that storage does not hold when
\* the request is dispatched return 404 with the body
\* {"error": "Item not found"}.
C3_AbsentIdReturns404 ==
    [][(/\ last'.act = "call"
        /\ last'.handler \in ItemHandlers
        /\ IsInt(last'.id)
        /\ ParseInt(last'.id) \notin DOMAIN storage)
          => /\ last'.done
             /\ ~last'.resp.raised
             /\ last'.resp.status = 404
             /\ last'.resp.body = NotFoundBody]_vars

\* C3 witness: a PUT on an id that a table with rows does not hold has
\* returned 404.
C3_Witness ==
    /\ last.act = "call" /\ last.handler = "UpdateHandler" /\ last.done
    /\ IsInt(last.id) /\ ParseInt(last.id) \notin DOMAIN storage
    /\ DOMAIN storage # {}
    /\ last.resp.status = 404

\* C4: after a POST returned 201, a GET by the pk of the POST's body returns
\* 200 with a body equal to the POST's body (posted holds the POST's body
\* for as long as no update or delete of that pk has committed).
C4_GetAfterPostReturnsPostedBody ==
    (/\ last.act = "call" /\ last.handler = "ReadHandler"
     /\ IsInt(last.id) /\ ParseInt(last.id) \in DOMAIN posted)
        => /\ last.resp.status = 200
           /\ last.resp.body = JsonBody(posted[ParseInt(last.id)])
           /\ last.resp.body.val.pk = ParseInt(last.id)

\* C4 witness: a GET by the pk a POST returned has returned 200, in a table
\* that holds another row too.
C4_Witness ==
    /\ last.act = "call" /\ last.handler = "ReadHandler" /\ last.done
    /\ IsInt(last.id) /\ ParseInt(last.id) \in DOMAIN posted
    /\ last.resp.status = 200
    /\ Cardinality(DOMAIN storage) = 2

\* C5: a DELETE on an id that storage holds returns 204 (unless the database
\* fails its commit) and removes the row; the row stays absent, and every
\* GET on the id returns 404, whatever requests follow, until a create
\* generates the id again.
IsCreateOf(step, p) ==
    /\ step.handler = "CreateHandler" /\ step.resp.status = 201
    /\ step.resp.body.val.pk = p

C5_DeleteRemovesPermanently ==
    /\ [][(/\ last'.act = "call" /\ last'.handler = "DeleteHandler"
            /\ IsInt(last'.id) /\ ParseInt(last'.id) \in DOMAIN storage
            /\ ~last'.dbFail)
              => /\ last'.resp.status = 204
                 /\ last'.resp.body = EmptyBody
                 /\ ParseInt(last'.id) \notin DOMAIN storage'
                 /\ ParseInt(last'.id) \in deleted']_vars
    /\ [][\A p \in deleted :
              \/ p \in deleted' /\ p \notin DOMAIN storage'
              \/ IsCreateOf(last', p)]_vars
    /\ [](\A p \in deleted : p \notin DOMAIN storage)
    /\ []((/\ last.act = "call" /\ last.handler = "ReadHandler"
            /\ IsInt(last.id) /\ ParseInt(last.id) \in deleted)
              => last.resp.status = 404 /\ last.resp.body = NotFoundBody)

\* C5 witness: a GET on a deleted id has returned 404.
C5_Witness ==
    /\ last.act = "call" /\ last.handler = "ReadHandler" /\ last.done
    /\ IsInt(last.id) /\ ParseInt(last.id) \in deleted
    /\ last.resp.status = 404

\* C6: a PUT or PATCH that returns 200 persists the value of every column
\* its body supplies and leaves every column its body does not supply with
\* the value it had before.
C6_UpdatePersistsSuppliedFields ==
    [][(/\ last'.act = "resume"
        /\ last'.handler \in {"UpdateHandler", "PatchHandler"}
        /\ last'.resp.status = 200)
          => LET pk   == ParseInt(last'.id)
                 data == last'.body.data
             IN  /\ pk \in DOMAIN storage /\ pk \in DOMAIN storage'
                 /\ \A c \in Columns :
                       IF c \in DOMAIN data
                       THEN storage'[pk][c] = data[c]
                       ELSE storage'[pk][c] = storage[pk][c]]_vars

\* C7: a create whose body is malformed JSON returns a 400 response, and
\* nothing is added to or committed in the session.
C7_MalformedJsonReturns400 ==
    (last.handler = "CreateHandler" /\ last.done /\ last.body.kind = "malformed")
        => /\ ~last.resp.raised
           /\ last.resp.status = 400
           /\ ~Invoked(last.log, "add")
           /\ ~Invoked(last.log, "commit")

\* C8: with no id in the route, ReadHandler returns 200 with the list of the
\* serialized forms of all the entities in storage.
IsListOfStorage(body, st) ==
    /\ body.kind = "list"
    /\ Len(body.val) = Cardinality(DOMAIN st)
    /\ \A p \in DOMAIN st :
          Cardinality({ i \in DOMAIN body.val : body.val[i] = as_dict(st[p]) }) = 1

C8_ReadWithoutIdReturnsList ==
    (last.act = "call" /\ last.handler = "ReadHandler" /\ last.id = NoId)
        => /\ ~last.resp.raised
           /\ last.resp.status = 200
           /\ IsListOfStorage(last.resp.body, storage)

\* C9: the retrieve-all handler returns 200 with exactly the serialized
\* forms of the rows committed in storage: each once, with its latest
\* values (a row as posted appears as posted), and no deleted entity.
C9_RetrieveAllReturnsStorage ==
    (last.act = "call" /\ last.handler = "RetrieveAllHandler")
        => /\ last.done /\ ~last.resp.raised
           /\ last.resp.status = 200
           /\ IsListOfStorage(last.resp.body, storage)
           /\ \A p \in DOMAIN posted :
                 \E i \in DOMAIN last.resp.body.val : last.resp.body.val[i] = posted[p]
           /\ \A p \in deleted :
                 \A i \in DOMAIN last.resp.body.val : last.resp.body.val[i].pk # p

\* C9 witness: retrieve-all has returned the one row of a table after an
\* update of the row committed.
C9_Witness ==
    /\ last.act = "call" /\ last.handler = "RetrieveAllHandler" /\ last.done
    /\ last.resp.status = 200
    /\ Len(last.resp.body.val) = 1
    /\ DOMAIN posted = {}
    /\ \E p \in DOMAIN storage : storage[p].name = "b" /\ storage[p].note = "x"

\* C10: the session lifecycle of a request is linear: one open, first; every
\* query, add, delete, commit and refresh after it and before the close; one
\* close, last, when the call leaves; a closed session is never used or
\* opened again.
Linear(lg, closed) ==
    /\ lg # << >>
    /\ lg[1] = "open"
    /\ Count(lg, "open") = 1
    /\ Count(lg, "close") = (IF closed THEN 1 ELSE 0)
    /\ closed => lg[Len(lg)] = "close"

C10_SessionLifecycleLinear ==
    /\ [](\A r \in Reqs :
            /\ pc[r] = "new" => sess[r] = "none" /\ log[r] = << >>
            /\ pc[r] = "reading" => sess[r] = "open" /\ Linear(log[r], FALSE)
            /\ pc[r] = "done" => sess[r] = "closed" /\ log[r] = << >>)
    /\ [](last.act # "none" => Linear(last.log, last.done))
    /\ [][\A r \in Reqs : sess[r] = "closed" => sess'[r] = "closed" /\ log'[r] = << >>]_vars

\* C10 witness: a call that added, committed and refreshed has left, with
\* every operation between its open and its close.
C10_Witness ==
    /\ last.done
    /\ last.log = <<"open", "query", "add", "commit", "refresh", "close">>

\* C11: with requests in flight together, each request in progress has one
\* active session, every session belongs to one request (no two requests
\* hold the same session), and the operations of a request are those of the
\* session it opened itself: its log starts with its own open.
InProgress == { r \in Reqs : pc[r] = "reading" }

C11_OneSessionPerRequest ==
    /\ \A r \in Reqs : pc[r] = "new" <=> db[r] = 0
    /\ \A r \in InProgress : sess[r] = "open" /\ log[r][1] = "open"
    /\ \A r, q \in Reqs : (r # q /\ db[r] # 0 /\ db[q] # 0) => db[r] # db[q]
    /\ Cardinality({ db[r] : r \in InProgress }) = Cardinality(InProgress)
    /\ \A r \in Reqs : pc[r] # "reading" => item[r] = << >> /\ sess[r] # "open"

\* C11 witness: two updates are suspended together, each holding the row
\* its own session loaded, after a third request has left.
C11_Witness ==
    /\ Cardinality(InProgress) = 2
    /\ \A r \in InProgress : Invoked(log[r], "query") /\ item[r] # << >>
    /\ \E r \in Reqs : pc[r] = "done" /\ sess[r] = "closed"

\* C12: when the commit of a create, update, patch or delete fails (the
\* database fails it, or its flush finds the row gone), the handler neither
\* retries nor recovers: one commit was attempted and nothing follows it on
\* the session but the close, the caller gets the exception and no response
\* (so no 2xx), storage is as it was, and the session is closed.
CommitFailed(step) ==
    step.done /\ (step.dbFail \/ step.resp.exc = "StaleDataError")

C12_CommitFailurePropagates ==
    [][CommitFailed(last') =>
          /\ last'.handler \in {"CreateHandler", "UpdateHandler", "PatchHandler", "DeleteHandler"}
          /\ last'.resp.raised /\ last'.resp.status = 0
          /\ last'.resp.exc \in {"OperationalError", "StaleDataError"}
          /\ Count(last'.log, "commit") = 1
          /\ ~Invoked(last'.log, "refresh") /\ ~Invoked(last'.log, "rollback")
          /\ SubSeq(last'.log, Len(last'.log) - 1, Len(last'.log)) = <<"commit", "close">>
          /\ storage' = storage
          /\ \A r \in Reqs : (pc[r] # "done" /\ pc'[r] = "done") => sess'[r] = "closed"]_vars

\* C12 witness: the commit of a delete of a stored row has failed; the row is
\* still stored and the call is over.
C12_Witness ==
    /\ last.handler = "DeleteHandler" /\ last.dbFail /\ last.resp.raised
    /\ IsInt(last.id) /\ ParseInt(last.id) \in DOMAIN storage
    /\ last.log = <<"open", "query", "delete", "commit", "close">>

\* C13: OPTIONS always returns status 200 with the same capability
\* descriptor (methods GET, POST, PUT, DELETE, PATCH, OPTIONS, HEAD; headers
\* Content-Type, Authorization; max age 3600), whatever storage holds.
C13_OptionsReturnsFixedDescriptor ==
    last.handler = "OptionsHandler"
        => /\ last.done /\ ~last.resp.raised
           /\ last.resp.status = 200
           /\ last.resp.body.kind = "json"
           /\ DOMAIN last.resp.body.val = {"allowed_methods", "allowed_headers", "max_age"}
           /\ last.resp.body.val.allowed_methods =
                  <<"GET", "POST", "PUT", "DELETE", "PATCH", "OPTIONS", "HEAD">>
           /\ last.resp.body.val.allowed_headers = <<"Content-Type", "Authorization">>
           /\ last.resp.body.val.max_age = 3600

\* C13 witness: OPTIONS has answered while storage holds two rows.
C13_Witness ==
    /\ last.handler = "OptionsHandler" /\ last.resp.status = 200
    /\ Cardinality(DOMAIN storage) = 2

\* C14 as stated: handling OPTIONS or HEAD involves no session interaction,
\* no session operation at all.
C14_NoSessionInteraction ==
    last.handler \in {"OptionsHandler", "HeadHandler"} => last.log = << >>

\* C14, amended: handling OPTIONS or HEAD opens a session and closes it, as
\* every call does, and performs no operation on it in between (no query,
\* add, delete, commit or refresh); storage is left as it was.
C14_SessionOpenedAndClosedUnused ==
    [][last'.handler \in {"OptionsHandler", "HeadHandler"}
          => /\ last'.done /\ last'.resp.status = 200
             /\ last'.log = <<"open", "close">>
             /\ storage' = storage]_vars

\* C14 witness: HEAD has answered over a table with a row; its session was
\* opened and closed.
C14_Witness ==
    /\ last.handler = "HeadHandler" /\ last.resp.status = 200
    /\ last.log = <<"open", "close">>
    /\ storage # << >>
    /\ \E r \in Reqs : pc[r] = "done" /\ db[r] # 0 /\ sess[r] = "closed"

\* C15: a successful create performs, in this order, exactly one add, exactly
\* one commit and then a refresh, and returns 201 with the serialized entity
\* including its generated pk: the key is new to storage, the row stored
\* under it is the row returned, and it carries the fields of the body.
C15_CreateAddsCommitsRefreshes ==
    [][(last'.handler = "CreateHandler" /\ last'.resp.status = 201)
          => /\ last'.log = <<"open", "add", "commit", "refresh", "close">>
             /\ last'.resp.body.kind = "json"
             /\ LET row == last'.resp.body.val IN
                  /\ DOMAIN row = Columns
                  /\ row.pk \in Pks /\ row.pk \notin DOMAIN storage
                  /\ DOMAIN storage' = DOMAIN storage \cup {row.pk}
                  /\ storage'[row.pk] = row
                  /\ \A p \in DOMAIN storage : storage'[p] = storage[p]
                  /\ \A c \in DataColumns :
                        row[c] = IF c \in DOMAIN last'.body.data
                                 THEN last'.body.data[c] ELSE NULL]_vars

\* C15 witness: a create over a table with a row has returned 201 with a
\* key other than the first.
C15_Witness ==
    /\ last.handler = "CreateHandler" /\ last.resp.status = 201
    /\ last.resp.body.val.pk > 1
    /\ Cardinality(DOMAIN storage) >= 2
    /\ Invoked(last.log, "refresh")

\* C16: PUT and PATCH behave identically: in every storage state, for every
\* id the two handlers take the same path up to the await (the same 404, the
\* same exception, or the same entity held), and for every entity held, every
\* body and either outcome of the commit they give the same response, the
\* same resulting storage and the same session operations.
C16_PutAndPatchIdentical ==
    /\ \A id \in RouteIds : UpdateLookup(storage, id) = PatchLookup(storage, id)
    /\ \A r \in InProgress : item[r] # << >> =>
          \A body \in Bodies, dbFail \in BOOLEAN :
              UpdateApply(storage, item[r], body, dbFail)
                  = PatchApply(storage, item[r], body, dbFail)

\* C16 witness: a PUT and a PATCH on the same stored row are suspended
\* together, and the row has a column set that a body may leave out.
C16_Witness ==
    \E r, q \in InProgress :
        /\ handler[r] = "UpdateHandler" /\ handler[q] = "PatchHandler"
        /\ item[r] # << >> /\ item[r] = item[q]
        /\ item[r][1].pk \in DOMAIN storage
        /\ \E c \in DataColumns : item[r][1][c] # NULL

\* C17: a PUT or PATCH on an id storage holds, whose body has a key that is
\* no column of the schema, is accepted: unless the database fails the
\* commit, the response is not a 400 and nothing is raised, the commit is
\* invoked, and the response is 200 with the serialized row as stored, in
\* which the unknown key does not appear.
C17_UnknownKeyAcceptedOnUpdate ==
    [][(/\ last'.act = "resume"
        /\ last'.handler \in {"UpdateHandler", "PatchHandler"}
        /\ HasUnknownField(last'.body)
        /\ ~last'.dbFail
        /\ ParseInt(last'.id) \in DOMAIN storage)
          => /\ ~last'.resp.raised
             /\ last'.resp.status = 200
             /\ Count(last'.log, "commit") = 1
             /\ last'.resp.body = JsonBody(storage'[ParseInt(last'.id)])
             /\ DOMAIN last'.resp.body.val = Columns
             /\ DOMAIN storage' = DOMAIN storage]_vars

\* C17 witness: a PATCH whose body has an unknown key next to a column has
\* returned 200, and the column is stored as supplied.
C17_Witness ==
    /\ last.handler = "PatchHandler" /\ last.act = "resume"
    /\ HasUnknownField(last.body) /\ "name" \in DOMAIN last.body.data
    /\ last.resp.status = 200
    /\ storage[ParseInt(last.id)].name = last.body.data.name
    /\ Invoked(last.log, "commit")

\* C18: storage is left unchanged by every step of a request that does not
\* end in a successful create (201), update or patch (200) or delete (204);
\* and GET by id, GET of the collection, OPTIONS, HEAD and every PUT, PATCH
\* or DELETE answered 404 perform no add, no delete and no commit.
Successful(step) ==
    \/ step.handler = "CreateHandler" /\ step.resp.status = 201
    \/ step.handler \in {"UpdateHandler", "PatchHandler"} /\ step.resp.status = 200
    \/ step.handler = "DeleteHandler" /\ step.resp.status = 204

ReadOnly(step) ==
    \/ step.handler \in {"ReadHandler", "RetrieveAllHandler", "OptionsHandler", "HeadHandler"}
    \/ /\ step.handler \in {"UpdateHandler", "PatchHandler", "DeleteHandler"}
       /\ step.resp.status = 404

C18_StorageUnchangedUnlessSuccessfulWrite ==
    [][/\ ~Successful(last') => storage' = storage
       /\ (last'.done /\ ReadOnly(last'))
             => /\ ~Invoked(last'.log, "add")
                /\ ~Invoked(last'.log, "delete")
                /\ ~Invoked(last'.log, "commit")
                /\ storage' = storage]_vars

\* C18 witness: a DELETE on an id that a table with rows does not hold has
\* been answered 404 after its lookup, and the rows are there.
C18_Witness ==
    /\ last.handler = "DeleteHandler" /\ last.resp.status = 404
    /\ last.log = <<"open", "query", "close">>
    /\ DOMAIN storage # {}

\* C19: in update and patch the lookup precedes the reading of the body: a
\* PUT or PATCH on an id storage does not hold is answered 404 in the step
\* of the lookup, never suspends to read a body (so the answer is the same
\* for a well-formed body, a malformed one and one with unknown keys), and
\* a PUT or PATCH that is reading its body has done its lookup and holds
\* the entity found.
C19_LookupPrecedesBodyRead ==
    [][/\ (/\ last'.act = "call"
           /\ last'.handler \in {"UpdateHandler", "PatchHandler"}
           /\ IsInt(last'.id)
           /\ ParseInt(last'.id) \notin DOMAIN storage)
             => /\ last'.done
                /\ last'.resp = Response(404, NotFoundBody)
                /\ last'.body = NoBody
                /\ last'.log = <<"open", "query", "close">>
                /\ \A r \in Reqs : pc[r] = "new" => pc'[r] \in {"new", "done"}
       /\ \A r \in Reqs :
             (pc'[r] = "reading" /\ handler'[r] \in {"UpdateHandler", "PatchHandler"})
                => /\ log'[r] = <<"open", "query">>
                   /\ item'[r] # << >>
                   /\ ToString(item'[r][1].pk) = route'[r]
                   /\ pc[r] = "new" => item'[r][1] = storage[item'[r][1].pk]]_vars

\* C19 witness: a PATCH on an absent id has been answered 404 with no body
\* read, while another request is suspended reading its own body.
C19_Witness ==
    /\ last.handler = "PatchHandler" /\ last.act = "call" /\ last.done
    /\ last.resp.status = 404 /\ last.body = NoBody
    /\ IsInt(last.id) /\ ParseInt(last.id) \notin DOMAIN storage
    /\ InProgress # {}

\* C20: a PUT or PATCH that resumes from reading its body after a DELETE of
\* the same id has committed does not make the row present again and does
\* not answer 200: it leaves with an exception and storage as the delete
\* left it.  No resumed PUT or PATCH adds a row, and a 200 it returns
\* describes the row storage holds under that id.
C20_UpdateAfterDeleteDoesNotResurrect ==
    [][(last'.act = "resume" /\ last'.handler \in {"UpdateHandler", "PatchHandler"})
          => LET pk == ParseInt(last'.id) IN
             /\ DOMAIN storage' = DOMAIN storage
             /\ last'.resp.status = 200
                   => pk \in DOMAIN storage' /\ last'.resp.body = JsonBody(storage'[pk])
             /\ pk \notin DOMAIN storage
                   => /\ storage' = storage
                      /\ last'.resp.raised /\ last'.resp.status = 0
                      /\ last'.resp.exc \in {"StaleDataError", "InvalidRequestError",
                                              "JSONDecodeError", "OperationalError"}]_vars

\* C20 witness: a PUT changing a column has resumed after a DELETE of its id
\* returned 204; its flush found no row, and the id is still absent.
C20_Witness ==
    /\ last.act = "resume" /\ last.handler = "UpdateHandler"
    /\ last.resp.exc = "StaleDataError"
    /\ ParseInt(last.id) \in deleted
    /\ ParseInt(last.id) \notin DOMAIN storage
    /\ SessionState(last.log) = "closed"

====
